---- MODULE Spec2Model ----
(***************************************************************************)
(* repo2prompt: clone a GitHub repository into a temporary directory,      *)
(* resolve an optional subdirectory, run code2prompt on it, and remove the *)
(* temporary directory when the Repo2Prompt scope is left.                 *)
(*                                                                         *)
(* Conventions.  A Python str is a sequence of tokens (<<>> is ""), a list *)
(* of str is a sequence of such sequences, an Optional value is a record   *)
(* [some, v] with None == [some |-> FALSE, v |-> <<>>].  A filesystem path *)
(* is the sequence of its components below "/"; fs is the set of paths     *)
(* that exist.  A command line is a sequence of str.                       *)
(***************************************************************************)
EXTENDS Integers, Sequences, FiniteSets, TLC

\* ------------------------------------------------------------ bounds
\* how many options may be present at once in one generate_prompt call
MaxPresent == 2
\* how many generate_prompt calls a library caller makes on one instance
MaxCalls == 2

\* ------------------------------------------------------------ values
None == [some |-> FALSE, v |-> <<>>]

Some(x) == [some |-> TRUE, v |-> x]

\* Python truthiness of an Optional[str] / Optional[List[str]]
Truthy(x) == x.some /\ x.v # <<>>

IsPrefix(s, t) == Len(s) <= Len(t) /\ SubSeq(t, 1, Len(s)) = s

\* sep.join(list)
RECURSIVE Join(_, _)
Join(sep, list) ==
    IF list = <<>> THEN <<>>
    ELSE IF Len(list) = 1 THEN list[1]
    ELSE list[1] \o <<sep>> \o Join(sep, Tail(list))

\* ------------------------------------------------------------ exceptions
Exc(cls, msg) == [cls |-> cls, msg |-> msg]

NoExc == Exc("none", <<>>)

\* Python's class hierarchy for the exception classes that occur
IsInstance(e, cls) ==
    \/ e.cls = cls
    \/ e.cls = "JSONDecodeError" /\ cls = "ValueError"
    \/ e.cls = "FileNotFoundError" /\ cls = "OSError"

\* ------------------------------------------------------------ urllib.parse
UrlDelims == {"/", "?", "#"}

\* index of the first delimiter token of s, or Len(s)+1
RECURSIVE FirstDelim(_, _)
FirstDelim(s, i) ==
    IF i > Len(s) THEN i
    ELSE IF s[i] \in UrlDelims THEN i
    ELSE FirstDelim(s, i + 1)

Schemes == {"https", "http"}

\* urlparse(url).netloc
Netloc(url) ==
    LET rest == IF Len(url) >= 2 /\ url[1] \in Schemes /\ url[2] = ":"
                THEN SubSeq(url, 3, Len(url)) ELSE url
    IN IF Len(rest) >= 1 /\ rest[1] = "//"
       THEN SubSeq(rest, 2, FirstDelim(rest, 2) - 1)
       ELSE <<>>

GithubHosts == {<<"github.com">>, <<"www.github.com">>}

\* variant: `"github.com" in url` in place of the comparison of the netloc
validate_github_url_loose(url) ==
    \E i \in 1..Len(url) : <<url[i]>> \in GithubHosts

\* _validate_github_url

validate_github_url(url) == Netloc(url) \in GithubHosts

\* ------------------------------------------------------------ json
JsonScalars == {"\"success\"", "\"status\"", "1", "null"}

JsonStrings == {"\"success\"", "\"status\""}

JVal(kind, key, val) == [kind |-> kind, key |-> key, val |-> val]

NoJson == JVal("none", "", "")

\* the dict {"status": "success"}
StatusSuccess == JVal("object", "\"status\"", "\"success\"")

\* json.loads(text): [ok, val]; ok = FALSE stands for json.JSONDecodeError
json_loads(text) ==
    IF Len(text) = 1 /\ text[1] \in JsonScalars
      THEN [ok |-> TRUE, val |-> JVal("scalar", "", text[1])]
    ELSE IF text = <<"{", "}">>
      THEN [ok |-> TRUE, val |-> JVal("object", "", "")]
    ELSE IF Len(text) = 5 /\ text[1] = "{" /\ text[2] \in JsonStrings /\ text[3] = ":"
            /\ text[4] \in JsonScalars /\ text[5] = "}"
      THEN [ok |-> TRUE, val |-> JVal("object", text[2], text[4])]
    ELSE IF text = <<"[", "]">>
      THEN [ok |-> TRUE, val |-> JVal("array", "", "")]
    ELSE IF Len(text) = 3 /\ text[1] = "[" /\ text[2] \in JsonScalars /\ text[3] = "]"
      THEN [ok |-> TRUE, val |-> JVal("array", "", text[2])]
    ELSE [ok |-> FALSE, val |-> NoJson]

\* json.dumps(val, indent=2), whitespace not represented
json_dumps(val) ==
    IF val.kind = "scalar" THEN <<val.val>>
    ELSE IF val.kind = "object"
      THEN IF val.key = "" THEN <<"{", "}">> ELSE <<"{", val.key, ":", val.val, "}">>
    ELSE IF val.kind = "array"
      THEN IF val.val = "" THEN <<"[", "]">> ELSE <<"[", val.val, "]">>
    ELSE <<>>

\* ------------------------------------------------------------ filesystem
TmpNames == <<"repo2prompt_a", "repo2prompt_b", "repo2prompt_c", "repo2prompt_d">>

TmpRoot == <<"tmp">>

InitFs == {TmpRoot, <<"etc">>}

Under(root, files) == {p \in files : IsPrefix(root, p)}

\* variant: one fixed directory name in place of a fresh one
mkdtemp_fixed(files) == TmpRoot \o <<TmpNames[1]>>

\* tempfile.mkdtemp(prefix="repo2prompt_"): a directory name not in use
mkdtemp(files) ==
    LET free == {i \in 1..Len(TmpNames) : TmpRoot \o <<TmpNames[i]>> \notin files}
        i == CHOOSE k \in free : \A j \in free : k <= j
    IN TmpRoot \o <<TmpNames[i]>>

\* os.path.join(base, sub): an absolute sub replaces base
path_join(base, sub) ==
    IF sub # <<>> /\ sub[1] = "/" THEN Tail(sub) ELSE base \o sub

\* variant: the entries below path are removed, path itself is not
rmtree_contents_only(path, ignore_errors, stuck, files) ==
    [fs |-> (files \ Under(path, files)) \cup {path}, raised |-> FALSE]

\* shutil.rmtree(path, ignore_errors): stuck is None when every entry can be
\* removed, or a path under `path` that cannot be (it and the directories
\* above it stay).  [fs, raised]
rmtree(path, ignore_errors, stuck, files) ==
    LET kept == IF stuck.some THEN {p \in Under(path, files) : IsPrefix(p, stuck.v)} ELSE {}
    IN [fs |-> (files \ Under(path, files)) \cup kept,
        raised |-> stuck.some /\ ~ignore_errors]

\* what a successful `git clone` may leave below the clone root
Layouts == { {<<"README.md">>}, {<<"README.md">>, <<"src">>, <<"src", "main.py">>} }

\* ------------------------------------------------------------ options
OptNames == {"template", "include", "exclude", "count_tokens", "encoding", "output",
             "output_format", "diff", "line_number", "no_codeblock", "hidden",
             "no_ignore", "git_diff_branch", "git_log_branch"}

OptStr(S, name, value) == IF name \in S THEN Some(value) ELSE None

\* the keyword arguments of generate_prompt with exactly the options of S given
OptsOf(S) ==
    [template        |-> OptStr(S, "template", <<"t.hbs">>),
     include         |-> OptStr(S, "include", << <<"*.py">>, <<"*.md">> >>),
     exclude         |-> OptStr(S, "exclude", << <<"tests/*">> >>),
     count_tokens    |-> "count_tokens" \in S,
     encoding        |-> OptStr(S, "encoding", <<"cl100k">>),
     output          |-> OptStr(S, "output", <<"out.md">>),
     output_format   |-> OptStr(S, "output_format", <<"json">>),
     diff            |-> "diff" \in S,
     line_number     |-> "line_number" \in S,
     no_codeblock    |-> "no_codeblock" \in S,
     hidden          |-> "hidden" \in S,
     no_ignore       |-> "no_ignore" \in S,
     git_diff_branch |-> OptStr(S, "git_diff_branch", <<"main">>),
     git_log_branch  |-> OptStr(S, "git_log_branch", <<"dev">>)]

NoOpts == OptsOf({})

\* option records a caller of the class can pass beyond those of OptsOf:
\* another output format, an empty include list, an empty template string
OddOpts == {[NoOpts EXCEPT !.output_format = Some(<<"xml">>)],
            [NoOpts EXCEPT !.include = Some(<<>>)],
            [NoOpts EXCEPT !.template = Some(<<>>)]}

OptChoices == {OptsOf(S) : S \in {T \in SUBSET OptNames : Cardinality(T) <= MaxPresent}}
              \cup OddOpts

\* the few option records of a library caller's repeated calls
LibOptChoices == {NoOpts, OptsOf({"output_format"})}

Urls == { <<"https", ":", "//", "github.com", "/", "acme", "/", "widget">>,
          <<"https", ":", "//", "www.github.com", "/", "acme", "/", "widget">>,
          <<"https", ":", "//", "gitlab.com", "/", "acme", "/", "widget">>,
          <<"https", ":", "//", "github.com", ":", "443", "/", "acme", "/", "widget">>,
          <<"https", ":", "//", "evil.com", "/", "github.com", "/", "widget">>,
          <<"github.com", "/", "acme", "/", "widget">> }

LibUrls == { <<"https", ":", "//", "github.com", "/", "acme", "/", "widget">>,
             <<"https", ":", "//", "gitlab.com", "/", "acme", "/", "widget">> }

Subdirs == {None, Some(<<>>), Some(<<"src">>), Some(<<"missing", "path">>),
            Some(<<"/", "etc">>)}

Branches == {None, Some(<<"main">>)}

Args(url, subdirectory, branch, opts) ==
    [github_url |-> url, subdirectory |-> subdirectory, branch |-> branch, opts |-> opts]

NoArgs == Args(<<>>, None, None, NoOpts)

\* ------------------------------------------------------------ Repo2Prompt
Ext(cmd, cond, items) == IF cond THEN cmd \o items ELSE cmd

\* the flags appended for the options, in the order of the code
option_flags(cmd, o) ==
    LET c1  == Ext(cmd, Truthy(o.template), << <<"--template">>, o.template.v >>)
        c2  == Ext(c1, Truthy(o.include), << <<"--include">>, Join(",", o.include.v) >>)
        c3  == Ext(c2, Truthy(o.exclude), << <<"--exclude">>, Join(",", o.exclude.v) >>)
        c4  == Ext(c3, o.count_tokens, << <<"--tokens">> >>)
        c5  == Ext(c4, Truthy(o.encoding), << <<"--encoding">>, o.encoding.v >>)
        c6  == Ext(c5, Truthy(o.output), << <<"--output">>, o.output.v >>)
        c7  == Ext(c6, Truthy(o.output_format), << <<"-O">>, o.output_format.v >>)
        c8  == Ext(c7, o.diff, << <<"--diff">> >>)
        c9  == Ext(c8, o.line_number, << <<"--line-number">> >>)
        c10 == Ext(c9, o.no_codeblock, << <<"--no-codeblock">> >>)
        c11 == Ext(c10, o.hidden, << <<"--hidden">> >>)
        c12 == Ext(c11, o.no_ignore, << <<"--no-ignore">> >>)
        c13 == Ext(c12, Truthy(o.git_diff_branch),
                   << <<"--git-diff-branch">>, o.git_diff_branch.v >>)
    IN Ext(c13, Truthy(o.git_log_branch), << <<"--git-log-branch">>, o.git_log_branch.v >>)

IsJson(o) == o.output_format = Some(<<"json">>)

\* the command line _run_code2prompt hands to subprocess.run
code2prompt_cmd(directory, o) ==
    LET cmd == option_flags(<< <<"code2prompt">>, directory >>, o)
    IN Ext(cmd, IsJson(o), << <<"-O">>, <<"json">> >>)

\* the command line _clone_repository hands to subprocess.run
git_cmd(url, branch, dir) ==
    Ext(<< <<"git">>, <<"clone">> >>, Truthy(branch), << <<"--branch">>, branch.v >>)
        \o <<url, dir>>

Outcome(kind, val, exc) == [kind |-> kind, val |-> val, exc |-> exc]

NoOutcome == Outcome("none", NoJson, NoExc)

Return(val) == Outcome("return", val, NoExc)

Raise(exc) == Outcome("raise", NoJson, exc)

\* how an external process ends: found = FALSE is subprocess.run raising
\* FileNotFoundError because the binary is not on PATH
Proc(found, code, out, err) == [found |-> found, code |-> code, out |-> out, err |-> err]

StdoutTexts == { <<"{", "\"status\"", ":", "\"success\"", "}">>,
                 <<"[", "1", "]">>,
                 <<"{", "\"status\"", ":">>,
                 <<"not json">>,
                 <<>> }

NoProc == Proc(FALSE, 0, <<>>, <<>>)

\* what subprocess.run keeps of the process: without capture_output neither
\* stdout nor stderr
Seen(p, captured) == IF captured THEN p ELSE Proc(p.found, p.code, <<>>, <<>>)

GeneratorEnds == {Proc(TRUE, 0, out, <<>>) : out \in StdoutTexts}
                 \cup {Proc(TRUE, 1, <<>>, <<"error: no files">>), Proc(FALSE, 0, <<>>, <<>>)}

GitEnds == {Proc(TRUE, 0, <<>>, <<>>),
            Proc(TRUE, 128, <<>>, <<"fatal: repository not found">>),
            Proc(FALSE, 0, <<>>, <<>>)}

\* _run_code2prompt after the process ended
run_code2prompt_result(o, p) ==
    IF ~p.found THEN Raise(Exc("FileNotFoundError", <<"code2prompt">>))
    ELSE IF p.code # 0
      THEN Raise(Exc("RuntimeError", <<"Failed to run code2prompt: ">>
                        \o (IF IsJson(o) THEN p.err ELSE <<"None">>)))
    ELSE IF IsJson(o)
      THEN IF json_loads(p.out).ok THEN Return(json_loads(p.out).val)
           ELSE Raise(Exc("JSONDecodeError", <<"Expecting value: ">> \o p.out))
    ELSE Return(StatusSuccess)

\* variant: the joined path is returned without the os.path.exists test
get_subdirectory_path_nocheck(base_dir, subdirectory, files) ==
    [ok |-> TRUE, exc |-> NoExc, fs |-> files,
     path |-> IF Truthy(subdirectory) THEN path_join(base_dir, subdirectory.v) ELSE base_dir]

\* _get_subdirectory_path: [ok, path, exc, fs], fs the filesystem it leaves
get_subdirectory_path(base_dir, subdirectory, files) ==
    IF ~Truthy(subdirectory)
      THEN [ok |-> TRUE, path |-> base_dir, exc |-> NoExc, fs |-> files]
    ELSE LET full_path == path_join(base_dir, subdirectory.v)
         IN IF full_path \notin files
              THEN [ok |-> FALSE, path |-> <<>>, fs |-> files,
                    exc |-> Exc("ValueError", <<"Subdirectory '">> \o subdirectory.v
                                   \o <<"' does not exist in the repository">>)]
              ELSE [ok |-> TRUE, path |-> full_path, exc |-> NoExc, fs |-> files]

\* ------------------------------------------------------------ state
VARIABLES
    caller,      \* "main": the command line; "library": code using the class directly
    pc,          \* where the caller is
    args,        \* the arguments of the generate_prompt call in progress
    temp_dir,    \* Repo2Prompt.temp_dir (Optional path)
    fs,          \* the paths that exist on disk
    repo_dir,    \* generate_prompt's local repo_dir
    target_dir,  \* generate_prompt's local target_dir
    steps,       \* the steps the current generate_prompt call has run, in order
    procs,       \* the command lines the current generate_prompt call has started
    outcome,     \* how the latest generate_prompt call ended
    calls,       \* generate_prompt calls made on the instance
    created,     \* every directory a clone step of the instance created, in order
    lastRm,      \* the latest __exit__: the path it removed and what was stuck
    propagated,  \* what leaves the `with` block after __exit__
    exitStatus,  \* main's process exit status, -1 while running
    errStream,   \* what main printed to sys.stderr
    outStream,   \* what main printed to sys.stdout
    escaped,     \* the exception that left main unhandled, if any
    ended        \* how the latest external process ended, as subprocess.run saw it

vars == <<caller, pc, args, temp_dir, fs, repo_dir, target_dir, steps, procs, outcome,
          calls, created, lastRm, propagated, exitStatus, errStream, outStream, escaped,
          ended>>

mainVars == <<exitStatus, errStream, outStream, escaped>>

NoRm == [done |-> FALSE, path |-> None, stuck |-> None]

\* Repo2Prompt.__init__: temp_dir = None
Init ==
    /\ caller \in {"main", "library"}
    /\ pc = "start"
    /\ args = NoArgs
    /\ temp_dir = None
    /\ fs = InitFs
    /\ repo_dir = <<>>
    /\ target_dir = <<>>
    /\ steps = <<>>
    /\ procs = <<>>
    /\ outcome = NoOutcome
    /\ calls = 0
    /\ created = <<>>
    /\ lastRm = NoRm
    /\ propagated = NoOutcome
    /\ exitStatus = -1
    /\ errStream = <<>>
    /\ outStream = <<>>
    /\ escaped = NoExc
    /\ ended = NoProc

\* main up to the `with` statement: the code2prompt installation check
MainStart ==
    /\ caller = "main" /\ pc = "start"
    /\ \E is_installed \in BOOLEAN :
         IF is_installed
           THEN /\ pc' = "ready"
                /\ UNCHANGED mainVars
           ELSE /\ pc' = "done"
                /\ exitStatus' = 1
                /\ errStream' = <<"Error: code2prompt is not installed or not in PATH.">>
                /\ UNCHANGED <<outStream, escaped>>
    /\ UNCHANGED <<caller, args, temp_dir, fs, repo_dir, target_dir, steps, procs, outcome,
                   calls, created, lastRm, propagated, ended>>

\* Repo2Prompt.__enter__ for a library caller
Enter ==
    /\ caller = "library" /\ pc = "start"
    /\ pc' = "ready"
    /\ UNCHANGED <<caller, args, temp_dir, fs, repo_dir, target_dir, steps, procs, outcome,
                   calls, created, lastRm, propagated, exitStatus, errStream, outStream,
                   escaped, ended>>

\* the arguments a caller may pass
ArgChoices ==
    IF caller = "main"
      THEN {Args(u, s, b, o) : u \in Urls, s \in Subdirs, b \in Branches, o \in OptChoices}
      ELSE {Args(u, s, None, o) :
              u \in LibUrls,
              s \in {None, Some(<<"missing", "path">>)}, o \in LibOptChoices}

\* generate_prompt is entered: main calls it once, a library caller may call it
\* again on the same instance after a call returned or raised
Call ==
    /\ \/ pc = "ready"
       \/ caller = "library" /\ pc \in {"returned", "raised"}
    /\ calls < (IF caller = "main" THEN 1 ELSE MaxCalls)
    /\ \E a \in ArgChoices : args' = a
    /\ calls' = calls + 1
    /\ pc' = "validate"
    /\ steps' = <<>>
    /\ procs' = <<>>
    /\ outcome' = NoOutcome
    /\ repo_dir' = <<>>
    /\ target_dir' = <<>>
    /\ UNCHANGED <<caller, temp_dir, fs, created, lastRm, propagated, exitStatus,
                   errStream, outStream, escaped, ended>>

\* generate_prompt, the validation step
Validate ==
    /\ pc = "validate"
    /\ steps' = Append(steps, "validate")
    /\ IF validate_github_url(args.github_url)
         THEN /\ pc' = "clone"
              /\ UNCHANGED outcome
         ELSE /\ pc' = "raised"
              /\ outcome' = Raise(Exc("ValueError",
                                <<"Invalid GitHub repository URL: ">> \o args.github_url))
    /\ UNCHANGED <<caller, args, temp_dir, fs, repo_dir, target_dir, procs, calls, created,
                   lastRm, propagated, exitStatus, errStream, outStream, escaped, ended>>

\* variant: the message carries git's stdout
clone_error_stdout(p) == Exc("RuntimeError", <<"Failed to clone repository: ">> \o p.out)

\* _clone_repository's except clause
clone_error(p) == Exc("RuntimeError", <<"Failed to clone repository: ">> \o p.err)

\* variant: a failed clone is tried again
clone_next_retry(p) == IF ~p.found \/ p.code # 0 THEN "clone" ELSE "resolve"

\* where _clone_repository leaves generate_prompt once git ended
clone_next(p) == IF ~p.found \/ p.code # 0 THEN "raised" ELSE "resolve"

\* _clone_repository: mkdtemp, then git clone into the new directory
Clone ==
    /\ pc = "clone"
    /\ steps' = Append(steps, "clone")
    /\ LET dir == mkdtemp(fs)
       IN /\ temp_dir' = Some(dir)
          /\ created' = Append(created, dir)
          /\ procs' = Append(procs, git_cmd(args.github_url, args.branch, dir))
          /\ \E p \in GitEnds :
               /\ ended' = p
               /\ pc' = clone_next(p)
               /\ IF ~p.found
                    THEN /\ fs' = fs \cup {dir}
                         /\ outcome' = Raise(Exc("FileNotFoundError", <<"git">>))
                         /\ UNCHANGED repo_dir
                  ELSE IF p.code # 0
                    THEN /\ fs' = fs \cup {dir}
                         /\ outcome' = Raise(clone_error(p))
                         /\ UNCHANGED repo_dir
                  ELSE /\ \E layout \in Layouts :
                            fs' = fs \cup {dir} \cup {dir \o f : f \in layout}
                       /\ repo_dir' = dir
                       /\ UNCHANGED outcome
    /\ UNCHANGED <<caller, args, target_dir, calls, lastRm, propagated, exitStatus,
                   errStream, outStream, escaped>>

\* generate_prompt, the _get_subdirectory_path step
Resolve ==
    /\ pc = "resolve"
    /\ steps' = Append(steps, "resolve")
    /\ LET r == get_subdirectory_path(repo_dir, args.subdirectory, fs)
       IN /\ fs' = r.fs
          /\ IF r.ok
               THEN /\ target_dir' = r.path
                    /\ pc' = "invoke"
                    /\ UNCHANGED outcome
               ELSE /\ pc' = "raised"
                    /\ outcome' = Raise(r.exc)
                    /\ UNCHANGED target_dir
    /\ UNCHANGED <<caller, args, temp_dir, repo_dir, procs, calls, created, lastRm,
                   propagated, exitStatus, errStream, outStream, escaped, ended>>

\* _run_code2prompt up to subprocess.run: the command is built and started
InvokeStart ==
    /\ pc = "invoke"
    /\ steps' = Append(steps, "invoke")
    /\ procs' = Append(procs, code2prompt_cmd(target_dir, args.opts))
    /\ pc' = "running"
    /\ UNCHANGED <<caller, args, temp_dir, fs, repo_dir, target_dir, outcome, calls, created,
                   lastRm, propagated, exitStatus, errStream, outStream, escaped, ended>>

\* _run_code2prompt from the end of the external process on; generate_prompt
\* returns what it returns
InvokeFinish ==
    /\ pc = "running"
    /\ \E p \in GeneratorEnds :
         LET r == run_code2prompt_result(args.opts, p)
         IN /\ outcome' = r
            /\ ended' = Seen(p, IsJson(args.opts))
            /\ pc' = IF r.kind = "return" THEN "returned" ELSE "raised"
    /\ UNCHANGED <<caller, args, temp_dir, fs, repo_dir, target_dir, steps, procs, calls,
                   created, lastRm, propagated, exitStatus, errStream, outStream, escaped>>

\* main inside the `with` block, after generate_prompt returned
MainPrint ==
    /\ caller = "main" /\ pc = "returned"
    /\ outStream' = IF IsJson(args.opts) THEN json_dumps(outcome.val) ELSE <<>>
    /\ pc' = "printed"
    /\ UNCHANGED <<caller, args, temp_dir, fs, repo_dir, target_dir, steps, procs, outcome,
                   calls, created, lastRm, propagated, exitStatus, errStream, escaped, ended>>

\* variant: rmtree without ignore_errors=True
exit_scope_strict(td, stuck, files, out) ==
    IF Truthy(td)
      THEN LET r == rmtree(td.v, FALSE, stuck, files)
           IN [fs |-> r.fs,
               out |-> IF r.raised THEN Raise(Exc("OSError", <<"rmtree">>)) ELSE out]
      ELSE [fs |-> files, out |-> out]

\* Repo2Prompt.__exit__: [fs, out]; it returns None, so out, what leaves the
\* `with` block, is what was in flight unless __exit__ itself raises
exit_scope(td, stuck, files, out) ==
    IF Truthy(td)
      THEN LET r == rmtree(td.v, TRUE, stuck, files)
           IN [fs |-> r.fs,
               out |-> IF r.raised THEN Raise(Exc("OSError", <<"rmtree">>)) ELSE out]
      ELSE [fs |-> files, out |-> out]

\* the entries of the recorded directory one of which may resist removal
StuckChoices == {None} \cup (IF Truthy(temp_dir) THEN {Some(f) : f \in Under(temp_dir.v, fs)}
                                                ELSE {})

\* the `with` block is left
ScopeExit ==
    /\ \/ caller = "main" /\ pc \in {"printed", "raised"}
       \/ caller = "library" /\ pc \in {"ready", "returned", "raised"}
    /\ pc' = "exited"
    /\ \E stuck \in StuckChoices :
         LET r == exit_scope(temp_dir, stuck, fs, outcome)
         IN /\ fs' = r.fs
            /\ propagated' = r.out
            /\ lastRm' = [done |-> TRUE, path |-> temp_dir, stuck |-> stuck]
    /\ UNCHANGED <<caller, args, temp_dir, repo_dir, target_dir, steps, procs, outcome, calls,
                   created, exitStatus, errStream, outStream, escaped, ended>>

\* variant: `except RuntimeError` in place of `except (ValueError, RuntimeError)`
main_handler_runtime_only(out) ==
    IF out.kind = "raise"
      THEN IF IsInstance(out.exc, "RuntimeError")
             THEN [status |-> 1, err |-> <<"Error: ">> \o out.exc.msg, escaped |-> NoExc]
             ELSE [status |-> 1, err |-> <<>>, escaped |-> out.exc]
      ELSE [status |-> 0, err |-> <<>>, escaped |-> NoExc]

\* main after the `with` block: the except clause, or falling off the end
main_handler(out) ==
    IF out.kind = "raise"
      THEN IF IsInstance(out.exc, "ValueError") \/ IsInstance(out.exc, "RuntimeError")
             THEN [status |-> 1, err |-> <<"Error: ">> \o out.exc.msg, escaped |-> NoExc]
             ELSE [status |-> 1, err |-> <<>>, escaped |-> out.exc]
      ELSE [status |-> 0, err |-> <<>>, escaped |-> NoExc]

MainFinish ==
    /\ caller = "main" /\ pc = "exited"
    /\ LET h == main_handler(propagated)
       IN /\ exitStatus' = h.status
          /\ errStream' = h.err
          /\ escaped' = h.escaped
    /\ pc' = "done"
    /\ UNCHANGED <<caller, args, temp_dir, fs, repo_dir, target_dir, steps, procs, outcome,
                   calls, created, lastRm, propagated, outStream, ended>>

Next ==
    \/ MainStart
    \/ Enter
    \/ Call
    \/ Validate
    \/ Clone
    \/ Resolve
    \/ InvokeStart
    \/ InvokeFinish
    \/ MainPrint
    \/ ScopeExit
    \/ MainFinish

Spec == Init /\ [][Next]_vars

TypeOK ==
    /\ caller \in {"main", "library"}
    /\ pc \in {"start", "ready", "validate", "clone", "resolve", "invoke", "running",
               "returned", "raised", "printed", "exited", "done"}
    /\ calls \in 0..MaxCalls
    /\ exitStatus \in {-1, 0, 1}

\* ------------------------------------------------------------ properties
StepOrder == <<"validate", "clone", "resolve", "invoke">>

Ran(step) == \E i \in 1..Len(steps) : steps[i] = step

InCall == pc \in {"validate", "clone", "resolve", "invoke", "running"}

AfterCall == pc \in {"returned", "raised", "printed"}

AfterExit == pc \in {"exited", "done"} /\ lastRm.done

\* the four error kinds, by the raise statement each comes from
IsValidationError(e) ==
    e.cls = "ValueError" /\ IsPrefix(<<"Invalid GitHub repository URL: ">>, e.msg)

IsCloneError(e) ==
    e.cls = "RuntimeError" /\ IsPrefix(<<"Failed to clone repository: ">>, e.msg)

IsNotFoundError(e) ==
    e.cls = "ValueError" /\ IsPrefix(<<"Subdirectory '">>, e.msg)

IsInvocationError(e) ==
    e.cls = "RuntimeError" /\ IsPrefix(<<"Failed to run code2prompt: ">>, e.msg)

Lower(t) == IF t = "GitHub.com" THEN "github.com" ELSE t

\* index of the last "@" token of s, or 0
RECURSIVE LastAt(_, _)
LastAt(s, i) == IF i = 0 THEN 0 ELSE IF s[i] = "@" THEN i ELSE LastAt(s, i - 1)

\* urlparse(url).hostname: the netloc without userinfo and port, lowercased
Hostname(url) ==
    LET n == Netloc(url)
        h == SubSeq(n, LastAt(n, Len(n)) + 1, Len(n))
    IN IF h = <<>> THEN <<>> ELSE <<Lower(h[1])>>

BadHost == Hostname(args.github_url) \notin GithubHosts

\* C2: a generate_prompt call whose URL has a host other than github.com and
\* www.github.com fails validation with ValueError("Invalid GitHub repository
\* URL") as its only step: no process is started, and the validation step
\* leaves temp_dir, the filesystem and the list of created directories as
\* they were (temp_dir is None if no earlier call of the instance cloned).
C2_NoCloneForForeignHost ==
    /\ [](calls > 0 /\ BadHost =>
            /\ pc \in {"validate", "raised", "exited", "done"}
            /\ procs = <<>>
            /\ pc # "validate" =>
                 /\ steps = <<"validate">>
                 /\ outcome.kind = "raise" /\ IsValidationError(outcome.exc)
            /\ calls = 1 => temp_dir = None /\ fs = InitFs /\ created = <<>>)
    /\ [][pc = "validate" /\ BadHost =>
            /\ ~validate_github_url(args.github_url)
            /\ pc' = "raised"
            /\ UNCHANGED <<temp_dir, fs, created, procs>>]_vars

C2_Witness ==
    /\ pc = "raised" /\ BadHost /\ Hostname(args.github_url) = <<"evil.com">>
    /\ steps = <<"validate">> /\ temp_dir = None

\* C3: in structured mode, when the generator was found and exited 0, invoke
\* returns the structure its standard output denotes ({"status": "success"}
\* for that text) if the output is valid JSON, and otherwise raises the
\* error it raises for a non-zero exit: RuntimeError("Failed to run code2prompt").
C3_StructuredMode ==
    AfterCall /\ Ran("invoke") /\ IsJson(args.opts) /\ ended.found /\ ended.code = 0 =>
        IF json_loads(ended.out).ok
          THEN /\ outcome.kind = "return"
               /\ json_dumps(outcome.val) = ended.out
               /\ ended.out = <<"{", "\"status\"", ":", "\"success\"", "}">> =>
                     outcome.val = StatusSuccess
          ELSE outcome.kind = "raise" /\ IsInvocationError(outcome.exc)

RECURSIVE Count(_, _)
Count(x, s) == IF s = <<>> THEN 0 ELSE (IF Head(s) = x THEN 1 ELSE 0) + Count(x, Tail(s))

\* index of the first x in s, or 0
RECURSIVE IndexOf(_, _, _)
IndexOf(x, s, i) == IF i > Len(s) THEN 0 ELSE IF s[i] = x THEN i ELSE IndexOf(x, s, i + 1)

\* the command line has flag exactly once, followed by value, if present holds,
\* and not at all otherwise
FlagWithValue(cmd, present, flag, value) ==
    IF present
      THEN /\ Count(flag, cmd) = 1
           /\ IndexOf(flag, cmd, 1) < Len(cmd)
           /\ cmd[IndexOf(flag, cmd, 1) + 1] = value
      ELSE Count(flag, cmd) = 0

FlagAlone(cmd, present, flag) == Count(flag, cmd) = (IF present THEN 1 ELSE 0)

\* the mapping table of the command-line surface, for the started command
MappingHolds(cmd, o) ==
    /\ FlagWithValue(cmd, Truthy(o.template), <<"--template">>, o.template.v)
    /\ FlagWithValue(cmd, Truthy(o.include), <<"--include">>,
                     IF o.include.v = << <<"*.py">>, <<"*.md">> >>
                       THEN <<"*.py", ",", "*.md">> ELSE <<>>)
    /\ FlagWithValue(cmd, Truthy(o.exclude), <<"--exclude">>,
                     IF o.exclude.v = << <<"tests/*">> >> THEN <<"tests/*">> ELSE <<>>)
    /\ FlagAlone(cmd, o.count_tokens, <<"--tokens">>)
    /\ FlagWithValue(cmd, Truthy(o.encoding), <<"--encoding">>, o.encoding.v)
    /\ FlagWithValue(cmd, Truthy(o.output), <<"--output">>, o.output.v)
    /\ FlagWithValue(cmd, Truthy(o.output_format), <<"-O">>, o.output_format.v)
    /\ FlagAlone(cmd, o.diff, <<"--diff">>)
    /\ FlagAlone(cmd, o.line_number, <<"--line-number">>)
    /\ FlagAlone(cmd, o.no_codeblock, <<"--no-codeblock">>)
    /\ FlagAlone(cmd, o.hidden, <<"--hidden">>)
    /\ FlagAlone(cmd, o.no_ignore, <<"--no-ignore">>)
    /\ FlagWithValue(cmd, Truthy(o.git_diff_branch), <<"--git-diff-branch">>,
                     o.git_diff_branch.v)
    /\ FlagWithValue(cmd, Truthy(o.git_log_branch), <<"--git-log-branch">>,
                     o.git_log_branch.v)

\* C4: the command line invoke starts is code2prompt, the path, and for each
\* option that is present exactly one occurrence of its flag (with its value,
\* lists comma-joined in order), nothing for absent options; -O json once.
C4_OneFlagPerOption ==
    Ran("invoke") =>
        LET cmd == procs[Len(procs)]
        IN /\ SubSeq(cmd, 1, 2) = << <<"code2prompt">>, target_dir >>
           /\ MappingHolds(SubSeq(cmd, 3, Len(cmd)), args.opts)

\* C5: main ends with status 0 when generate_prompt returned, and with status
\* 1 and "Error: <message>" on the error stream, nothing left unhandled, when
\* it raised a validation, clone, not-found or invocation error or failed to
\* parse the generator's output in structured mode.
C5_ExitCodes ==
    pc = "done" /\ calls > 0 =>
        /\ outcome.kind = "return" =>
              exitStatus = 0 /\ errStream = <<>> /\ escaped = NoExc
        /\ /\ outcome.kind = "raise"
           /\ \/ IsValidationError(outcome.exc)
              \/ IsCloneError(outcome.exc)
              \/ IsNotFoundError(outcome.exc)
              \/ IsInvocationError(outcome.exc)
              \/ outcome.exc.cls = "JSONDecodeError"
           => /\ exitStatus = 1
              /\ errStream = <<"Error: ">> \o outcome.exc.msg
              /\ escaped = NoExc

C5_Witness ==
    /\ pc = "done" /\ exitStatus = 1 /\ outcome.exc.cls = "JSONDecodeError"
    /\ errStream = <<"Error: ", "Expecting value: ", "not json">>

IsGit(cmd) == cmd[1] = <<"git">>

\* C6: the steps of one generate_prompt call are a prefix of validate, clone,
\* resolveSubdirectory, invoke; a step runs only while no step has failed;
\* the processes started are git clone (once, by the clone step) and
\* code2prompt (once, by invoke); after a failure no further step runs and no
\* further process is started.
C6_LinearNoRetry ==
    /\ [](/\ IsPrefix(steps, StepOrder)
          /\ InCall => outcome = NoOutcome
          /\ Len(procs) = (IF Ran("clone") THEN 1 ELSE 0) + (IF Ran("invoke") THEN 1 ELSE 0)
          /\ \A i \in 1..Len(procs) : IsGit(procs[i]) <=> i = 1
          /\ outcome.kind = "return" => steps = StepOrder)
    /\ [][outcome.kind = "raise" /\ calls' = calls => steps' = steps /\ procs' = procs]_vars

C6_Witness ==
    /\ pc = "raised" /\ IsNotFoundError(outcome.exc)
    /\ steps = <<"validate", "clone", "resolve">> /\ Len(procs) = 1

CloneFailed == Ran("clone") /\ ended.found /\ ended.code # 0 /\ IsGit(procs[Len(procs)])

\* C7 (as stated): after git exits non-zero the call fails with CloneError
\* carrying git's diagnostic text, no later step runs, temp_dir records the
\* directory, and the directory is removed once the scope is exited.
C7_Original ==
    (AfterCall \/ AfterExit) /\ CloneFailed =>
        /\ outcome.kind = "raise" /\ outcome.exc = clone_error(ended)
        /\ steps = <<"validate", "clone">>
        /\ temp_dir = Some(created[Len(created)])
        /\ AfterExit => temp_dir.v \notin fs

\* C7 (amended): after git exits non-zero the call fails with
\* RuntimeError("Failed to clone repository: " + git's stderr), no later step
\* runs, and temp_dir records the directory, which still exists; __exit__
\* then applies its removal to that directory, and the directory is gone
\* unless an entry of it resisted removal.
C7_Amended ==
    (AfterCall \/ AfterExit) /\ CloneFailed =>
        /\ outcome.kind = "raise"
        /\ outcome.exc.cls = "RuntimeError"
        /\ outcome.exc.msg = <<"Failed to clone repository: ">> \o ended.err
        /\ ended.err # <<>>
        /\ steps = <<"validate", "clone">>
        /\ temp_dir = Some(created[Len(created)])
        /\ AfterCall => temp_dir.v \in fs
        /\ AfterExit => /\ lastRm.path = temp_dir
                        /\ ~lastRm.stuck.some => temp_dir.v \notin fs

C7_Witness ==
    /\ pc = "done" /\ CloneFailed /\ exitStatus = 1
    /\ ~lastRm.stuck.some /\ temp_dir.some /\ temp_dir.v \notin fs

\* C8: whether or not an entry resists removal, what leaves the Repo2Prompt
\* scope is what generate_prompt returned or raised, and main's exit status
\* and error output are those of that outcome.
C8_CleanupNeverMasks ==
    /\ AfterExit => propagated = outcome
    /\ pc = "done" /\ calls > 0 =>
          /\ exitStatus = (IF outcome.kind = "return" THEN 0 ELSE 1)
          /\ outcome.kind = "return" => errStream = <<>> /\ escaped = NoExc
          /\ outcome.kind = "raise" /\ outcome.exc.cls # "FileNotFoundError" =>
                errStream = <<"Error: ">> \o outcome.exc.msg
          /\ outcome.kind = "raise" /\ outcome.exc.cls = "FileNotFoundError" =>
                escaped = outcome.exc

C8_Witness ==
    /\ pc = "done" /\ lastRm.stuck.some /\ temp_dir.v \in fs
    /\ outcome.kind = "return" /\ exitStatus = 0

\* C9: the resolve step changes nothing on disk; without a subdirectory the
\* target is the clone root; with one, the target is the clone root followed
\* by the subdirectory's components (the subdirectory itself if it is
\* absolute) if that path exists, and ValueError("Subdirectory ... does not
\* exist") is raised if it does not.
C9_ResolveSubdirectory ==
    [][pc = "resolve" =>
         LET sub == args.subdirectory
             joined == IF sub.v # <<>> /\ sub.v[1] = "/"
                         THEN SubSeq(sub.v, 2, Len(sub.v)) ELSE repo_dir \o sub.v
         IN /\ fs' = fs
            /\ ~sub.some => pc' = "invoke" /\ target_dir' = repo_dir
            /\ sub.some /\ joined \in fs => pc' = "invoke" /\ target_dir' = joined
            /\ sub.some /\ joined \notin fs =>
                  /\ pc' = "raised" /\ target_dir' = target_dir
                  /\ outcome'.kind = "raise" /\ IsNotFoundError(outcome'.exc)]_vars

C9_Witness ==
    /\ pc = "invoke" /\ args.subdirectory = Some(<<"src">>)
    /\ target_dir = repo_dir \o <<"src">> /\ target_dir \in fs

\* C10: temp_dir is None until a clone step ran and afterwards the directory
\* the latest clone step created; directories of different clone steps are
\* different; __exit__ removes nothing but that latest directory, so the
\* directories of earlier clone steps still exist after it.
C10_OnlyLastTracked ==
    /\ temp_dir = (IF created = <<>> THEN None ELSE Some(created[Len(created)]))
    /\ \A i, j \in 1..Len(created) : i # j => created[i] # created[j]
    /\ \A i \in 1..Len(created) - 1 : Under(created[i], fs) # {}
    /\ InitFs \subseteq fs
    /\ AfterExit => lastRm.path = temp_dir

C10_Witness ==
    /\ pc = "exited" /\ Len(created) = 2 /\ ~lastRm.stuck.some
    /\ created[1] \in fs /\ created[2] \notin fs
====
